---- MODULE Spec2Model ----
(***************************************************************************)
(* Attack Path Mapper: the attack graph engine of attack_path_mapper.py.   *)
(*                                                                         *)
(* Numbers.  exploitability is kept in tenths (0.7 is 7) and every risk    *)
(* score in hundredths (7.0 is 700), so that                               *)
(*   severity*0.7 + exploitability*10*0.3                                  *)
(* is the integer severity*70 + tenths*30.  Binary floating point rounding *)
(* of the last digit (8.7 + 8.1 printing as 16.799999999999997) is not     *)
(* represented.                                                            *)
(*                                                                         *)
(* Containers.  A Python dict is insertion ordered, and the order decides  *)
(* the order in which edges are created and paths are enumerated, so       *)
(* attack_nodes, the vertex table and every adjacency table of the         *)
(* networkx DiGraph are sequences in insertion order.  The `data`          *)
(* attribute that add_node stores on a vertex is never read back by the    *)
(* engine (it reads attack_nodes) and is left out.                         *)
(***************************************************************************)
EXTENDS Integers, Sequences, FiniteSets, TLC

\* ------------------------------------------------------------------------
\* Bounds of the model
\* ------------------------------------------------------------------------
MaxVulns == 3
MaxK == 3
MaxFinds == 2

Engines == {1, 2}

\* ------------------------------------------------------------------------
\* Vulnerability records (the elements of data['vulnerabilities'])
\* ------------------------------------------------------------------------
\* A key that the record does not have.
Absent == "<absent>"
\* A JSON value that is not a string (a number such as 123, or null).
NonStr == "<non-string>"

Vuln(t, i) == [shape |-> "dict", type |-> t, id |-> i]
\* A list element that is not a JSON object (for instance a bare string).
NotADict == [shape |-> "other", type |-> Absent, id |-> Absent]

\* str.lower() on the type strings that occur in the inputs.
UpperToLower ==
    ("WEB_SQLI" :> "web_sqli") @@ ("Privilege_Escalation" :> "privilege_escalation")

\* Mutation: the lookup is case sensitive.
Lower_identity(s) == s

Lower(s) == IF s \in DOMAIN UpperToLower THEN UpperToLower[s] ELSE s

\* `sub in s` of two Python strings, on the identifiers that occur.
ProperSubstrings == { <<"privilege_escalation", "privilege_escalation_2">> }

StrContains(sub, s) == s = sub \/ <<sub, s>> \in ProperSubstrings

\* ------------------------------------------------------------------------
\* AttackNode
\* ------------------------------------------------------------------------
Rule(tech, sev, expl, pre) ==
    [technique |-> tech, severity |-> sev, exploitability |-> expl, prereqs |-> pre]

mapping ==
    ("ssh_weak_auth" :> Rule("BRUTE_FORCE", 7, 7, <<>>)) @@
    ("open_port" :> Rule("EXPLOIT_PUBLIC", 5, 5, <<>>)) @@
    ("web_sqli" :> Rule("SQLI", 9, 8, <<>>)) @@
    ("web_xss" :> Rule("XSS", 6, 6, <<>>)) @@
    ("misconfigured_s3" :> Rule("MISCONFIG_EXPLOIT", 8, 9, <<>>)) @@
    ("privilege_escalation" :>
        Rule("PRIVILEGE_ESC", 9, 6, <<"ssh_weak_auth", "web_sqli">>)) @@
    ("credential_reuse" :>
        Rule("VALID_ACCOUNTS", 7, 7, <<"ssh_weak_auth", "web_sqli">>)) @@
    ("data_exfiltration" :>
        Rule("DATA_EXFIL", 10, 8, <<"privilege_escalation", "misconfigured_s3">>))

AttackNode(i, d, tech, sev, expl, pre) ==
    [id |-> i, description |-> d, technique |-> tech, severity |-> sev,
     exploitability |-> expl, prerequisites |-> pre]

\* Mutation: the two weights are exchanged.
get_risk_score_swapped(node) == node.severity * 30 + node.exploitability * 70

\* in hundredths
get_risk_score(node) == node.severity * 70 + node.exploitability * 30

\* ------------------------------------------------------------------------
\* _vulnerability_to_node
\* ------------------------------------------------------------------------
\* vuln.get(...) needs a mapping and .lower() needs a string: anything else
\* raises AttributeError.
VulnRaises(vuln) == vuln.shape # "dict" \/ vuln.type = NonStr

vuln_type_of(vuln) == Lower(IF vuln.type = Absent THEN "" ELSE vuln.type)

\* The node of a record that does not raise: <<node>>, or <<>> for None.
\* The records of the model carry no description, so every description is
\* the default one, '<vuln_type> vulnerability', written as the vuln_type.
vulnerability_to_node(vuln) ==
    LET vuln_type == vuln_type_of(vuln) IN
    IF vuln_type \in DOMAIN mapping
    THEN LET r == mapping[vuln_type] IN
         << AttackNode(IF vuln.id = Absent THEN vuln_type ELSE vuln.id,
                       vuln_type, r.technique, r.severity, r.exploitability,
                       r.prereqs) >>
    ELSE << >>

\* ------------------------------------------------------------------------
\* dict attack_nodes: id -> AttackNode, in insertion order
\* ------------------------------------------------------------------------
Range(s) == {s[i] : i \in DOMAIN s}

Keys(d) == {d[i].id : i \in DOMAIN d}

DictGet(d, k) == d[CHOOSE i \in DOMAIN d : d[i].id = k]

\* d[node.id] = node: a present key keeps its position and takes the value.
DictSet(d, node) ==
    IF node.id \in Keys(d)
    THEN [i \in DOMAIN d |-> IF d[i].id = node.id THEN node ELSE d[i]]
    ELSE Append(d, node)

\* ------------------------------------------------------------------------
\* networkx.DiGraph
\* ------------------------------------------------------------------------
NoSuccessors == << >>

EmptyGraph == [nodes |-> << >>, adj |-> [v \in {} |-> NoSuccessors]]

HasNode(g, v) == v \in Range(g.nodes)

HasEdge(g, u, v) == HasNode(g, u) /\ \E i \in DOMAIN g.adj[u] : g.adj[u][i].to = v

Edges(g) == UNION { {<<u, g.adj[u][i].to>> : i \in DOMAIN g.adj[u]} : u \in Range(g.nodes) }

add_node(g, v) ==
    IF HasNode(g, v) THEN g
    ELSE [nodes |-> Append(g.nodes, v),
          adj |-> [u \in Range(g.nodes) \cup {v} |->
                      IF u = v THEN NoSuccessors ELSE g.adj[u]]]

\* Mutation: a MultiDiGraph, every call adds a parallel edge.
add_edge_parallel(g, u, v, w) ==
    LET g1 == add_node(add_node(g, u), v)
    IN [g1 EXCEPT !.adj[u] = Append(@, [to |-> v, weight |-> w])]

\* An edge that is already there keeps its place and takes the new weight.
add_edge(g, u, v, w) ==
    LET g1 == add_node(add_node(g, u), v)
        succ == g1.adj[u]
        e == [to |-> v, weight |-> w]
    IN [g1 EXCEPT !.adj[u] =
           IF \E i \in DOMAIN succ : succ[i].to = v
           THEN [i \in DOMAIN succ |-> IF succ[i].to = v THEN e ELSE succ[i]]
           ELSE Append(succ, e)]

\* ------------------------------------------------------------------------
\* AttackPathMapper.build_attack_graph
\* ------------------------------------------------------------------------
\* The loop of lines 79-83 from record number i on.  A record that raises
\* ends the loop, and the call, with what the earlier records registered.
RECURSIVE RegisterNodes(_, _, _, _)
RegisterNodes(vulns, i, d, g) ==
    IF i > Len(vulns) THEN [attack_nodes |-> d, graph |-> g, raised |-> FALSE]
    ELSE IF VulnRaises(vulns[i])
         THEN [attack_nodes |-> d, graph |-> g, raised |-> TRUE]
         ELSE LET node == vulnerability_to_node(vulns[i]) IN
              IF node = << >> THEN RegisterNodes(vulns, i + 1, d, g)
              ELSE RegisterNodes(vulns, i + 1, DictSet(d, node[1]),
                                 add_node(g, node[1].id))

\* Mutation: the loop stops at the first prerequisite that is present.
RECURSIVE ConnectPrerequisites_first(_, _, _, _)
ConnectPrerequisites_first(d, node, j, g) ==
    IF j > Len(node.prerequisites) THEN g
    ELSE LET prereq == node.prerequisites[j] IN
         IF prereq \in Keys(d)
         THEN add_edge(g, prereq, node.id, get_risk_score(node))
         ELSE ConnectPrerequisites_first(d, node, j + 1, g)

\* for prereq in node.prerequisites, from prerequisite number j on
RECURSIVE ConnectPrerequisites(_, _, _, _)
ConnectPrerequisites(d, node, j, g) ==
    IF j > Len(node.prerequisites) THEN g
    ELSE LET prereq == node.prerequisites[j] IN
         ConnectPrerequisites(d, node, j + 1,
             IF prereq \in Keys(d)
             THEN add_edge(g, prereq, node.id, get_risk_score(node))
             ELSE g)

\* Mutation: the test of line 129 is forgotten.
ConnectEntryPoint_always(node, g) == add_edge(g, "START", node.id, 0)

\* if not node.prerequisites: the node is an entry point
ConnectEntryPoint(node, g) ==
    IF node.prerequisites = << >> THEN add_edge(g, "START", node.id, 0) ELSE g

\* for node_id, node in self.attack_nodes.items(), from node number i on
RECURSIVE CreateEdgesFrom(_, _, _)
CreateEdgesFrom(d, i, g) ==
    IF i > Len(d) THEN g
    ELSE CreateEdgesFrom(d, i + 1,
             ConnectEntryPoint(d[i], ConnectPrerequisites(d, d[i], 1, g)))

create_attack_edges(d, g) == CreateEdgesFrom(d, 1, g)

\* Mutation: the edges of a node are created when the node is registered,
\* before the later records are.
RECURSIVE RegisterAndConnect(_, _, _, _)
RegisterAndConnect(vulns, i, d, g) ==
    IF i > Len(vulns) THEN [attack_nodes |-> d, graph |-> g, raised |-> FALSE]
    ELSE IF VulnRaises(vulns[i])
         THEN [attack_nodes |-> d, graph |-> g, raised |-> TRUE]
         ELSE LET node == vulnerability_to_node(vulns[i]) IN
              IF node = << >> THEN RegisterAndConnect(vulns, i + 1, d, g)
              ELSE LET d1 == DictSet(d, node[1]) IN
                   RegisterAndConnect(vulns, i + 1, d1,
                       ConnectEntryPoint(node[1],
                           ConnectPrerequisites(d1, node[1], 1,
                               add_node(g, node[1].id))))

build_attack_graph_eager(vulns, d, g) == RegisterAndConnect(vulns, 1, d, g)

\* The mapper after build_attack_graph, and whether the call raised.
build_attack_graph(vulns, d, g) ==
    LET r == RegisterNodes(vulns, 1, d, g) IN
    IF r.raised THEN r
    ELSE [attack_nodes |-> r.attack_nodes,
          graph |-> create_attack_edges(r.attack_nodes, r.graph),
          raised |-> FALSE]

\* ------------------------------------------------------------------------
\* AttackPathMapper._evaluate_path
\* ------------------------------------------------------------------------
RECURSIVE SumRisk(_)
SumRisk(nodes) ==
    IF nodes = << >> THEN 0 ELSE get_risk_score(Head(nodes)) + SumRisk(Tail(nodes))

MinOf(S) == CHOOSE x \in S : \A y \in S : x <= y
MaxOf(S) == CHOOSE x \in S : \A y \in S : x >= y

\* Mutation: the slice starts one element late, path[2:-1].
InnerIds_late(path) == [i \in 1..(Len(path) - 3) |-> path[i + 2]]

\* path[1:-1]
InnerIds(path) == [i \in 1..(Len(path) - 2) |-> path[i + 1]]

ActualNodes(d, path) == [i \in DOMAIN InnerIds(path) |-> DictGet(d, InnerIds(path)[i])]

\* Mutation: max in place of min.
Likelihood_max(nodes) == MaxOf({nodes[i].exploitability : i \in DOMAIN nodes})

Likelihood(nodes) == MinOf({nodes[i].exploitability : i \in DOMAIN nodes})

ImpactScore(nodes) == MaxOf({nodes[i].severity : i \in DOMAIN nodes})

\* <<AttackPath>>, or <<>> for None.  path_description joins the
\* descriptions of the steps in order: it is kept as their sequence.
evaluate_path(d, path) ==
    LET actual_nodes == ActualNodes(d, path) IN
    IF actual_nodes = << >> THEN << >>
    ELSE << [nodes |-> actual_nodes,
             total_risk |-> SumRisk(actual_nodes),
             likelihood |-> Likelihood(actual_nodes),
             impact_score |-> ImpactScore(actual_nodes),
             path_description |->
                 [i \in DOMAIN actual_nodes |-> actual_nodes[i].description]] >>

\* ------------------------------------------------------------------------
\* networkx.all_simple_paths(G, source, target)
\* ------------------------------------------------------------------------
\* Depth-first search that follows every adjacency table in insertion
\* order, never revisits a vertex of the current path and does not expand
\* the target.  `visited` is the current path, `succs` the successors of its
\* last vertex that are still to be tried.  The cutoff of len(G)-1 edges is
\* the length of the longest simple path and cuts nothing.
RECURSIVE SimplePathsFrom(_, _, _, _)
SimplePathsFrom(g, visited, succs, target) ==
    IF succs = << >> THEN << >>
    ELSE LET child == Head(succs).to
             rest == SimplePathsFrom(g, visited, Tail(succs), target)
         IN IF child \in Range(visited) THEN rest
            ELSE IF child = target THEN << Append(visited, child) >> \o rest
            ELSE SimplePathsFrom(g, Append(visited, child), g.adj[child], target)
                     \o rest

\* A source that is not a vertex raises NodeNotFound (see
\* find_attack_paths).  A target that is not a vertex is replaced by the set
\* of its elements, set('END'), the one-letter strings 'E', 'N' and 'D': no
\* identifier of the model is one of them, so nothing is found.
all_simple_paths(g, source, target) ==
    IF ~HasNode(g, target) THEN << >>
    ELSE SimplePathsFrom(g, << source >>, g.adj[source], target)

\* ------------------------------------------------------------------------
\* AttackPathMapper.find_attack_paths
\* ------------------------------------------------------------------------
end_node_types == << "data_exfiltration", "privilege_escalation" >>

\* any(end_type in node_id for end_type in end_node_types)
\* Mutation: every node is taken for an objective.
IsEndNode_any(node_id) == TRUE

IsEndNode(node_id) ==
    \E j \in DOMAIN end_node_types : StrContains(end_node_types[j], node_id)

\* lines 138-140, from node number i on
RECURSIVE ConnectEndFrom(_, _, _)
ConnectEndFrom(d, i, g) ==
    IF i > Len(d) THEN g
    ELSE ConnectEndFrom(d, i + 1,
             IF IsEndNode(d[i].id)
             THEN add_edge(g, d[i].id, "END", get_risk_score(d[i]))
             ELSE g)

\* s[:k] for k >= 0
Take(s, k) == SubSeq(s, 1, IF k < Len(s) THEN k ELSE Len(s))

\* lines 147-150: evaluate the raw paths in order, keep what is not None
RECURSIVE EvaluateAll(_, _)
EvaluateAll(d, raw) ==
    IF raw = << >> THEN << >>
    ELSE evaluate_path(d, Head(raw)) \o EvaluateAll(d, Tail(raw))

\* list.sort(key=total_risk, reverse=True) is stable: of two paths of equal
\* total_risk the one that was first stays first.
\* Mutation: reverse=True is forgotten, the sort is ascending.
InsertByRisk_ascending(sorted, p) ==
    LET n == Cardinality({i \in DOMAIN sorted : sorted[i].total_risk <= p.total_risk})
    IN SubSeq(sorted, 1, n) \o << p >> \o SubSeq(sorted, n + 1, Len(sorted))

InsertByRisk(sorted, p) ==
    LET n == Cardinality({i \in DOMAIN sorted : sorted[i].total_risk >= p.total_risk})
    IN SubSeq(sorted, 1, n) \o << p >> \o SubSeq(sorted, n + 1, Len(sorted))

RECURSIVE SortByRisk(_)
SortByRisk(ps) ==
    IF ps = << >> THEN << >>
    ELSE InsertByRisk(SortByRisk(SubSeq(ps, 1, Len(ps) - 1)), ps[Len(ps)])

\* The raw paths that line 147 hands to _evaluate_path.
Candidates(all_paths, max_paths) == Take(all_paths, max_paths)

\* The value of `paths` at the return statement, from the list of all
\* simple paths.
RankedPaths(d, all_paths, max_paths) ==
    Take(SortByRisk(EvaluateAll(d, Candidates(all_paths, max_paths))), max_paths)

\* ------------------------------------------------------------------------
\* AttackPathMapper.generate_report: the recommendations (lines 220-232)
\* ------------------------------------------------------------------------
\* for node in path.nodes: node_dict[node.id] = node, from node number i on
RECURSIVE CollectNodes(_, _, _)
\* Mutation: the nodes are appended to a list, a node of two paths twice.
CollectNodes_append(nodes, i, node_dict) ==
    IF i > Len(nodes) THEN node_dict
    ELSE CollectNodes(nodes, i + 1, Append(node_dict, nodes[i]))

CollectNodes(nodes, i, node_dict) ==
    IF i > Len(nodes) THEN node_dict
    ELSE CollectNodes(nodes, i + 1, DictSet(node_dict, nodes[i]))

\* for path in paths, from path number n on
RECURSIVE CollectPaths(_, _, _)
CollectPaths(ps, n, node_dict) ==
    IF n > Len(ps) THEN node_dict
    ELSE CollectPaths(ps, n + 1, CollectNodes(ps[n].nodes, 1, node_dict))

NodeDict(ps) == CollectPaths(ps, 1, << >>)

\* sorted(..., key=get_risk_score, reverse=True), a stable sort
InsertNodeByRisk(sorted, node) ==
    LET n == Cardinality({i \in DOMAIN sorted :
                             get_risk_score(sorted[i]) >= get_risk_score(node)})
    IN SubSeq(sorted, 1, n) \o << node >> \o SubSeq(sorted, n + 1, Len(sorted))

RECURSIVE SortNodesByRisk(_)
SortNodesByRisk(nodes) ==
    IF nodes = << >> THEN << >>
    ELSE InsertNodeByRisk(SortNodesByRisk(SubSeq(nodes, 1, Len(nodes) - 1)),
                          nodes[Len(nodes)])

\* sorted_nodes[:5]
TopN == 5

Priority(node) ==
    IF node.severity >= 8 THEN "CRITICAL"
    ELSE IF node.severity >= 6 THEN "HIGH" ELSE "MEDIUM"

\* The entries 'Remediate: ... Priority: ...' of the report, in order.
Recommendations(ps) ==
    LET top == Take(SortNodesByRisk(NodeDict(ps)), TopN) IN
    [i \in DOMAIN top |-> [node |-> top[i], priority |-> Priority(top[i])]]

\* ------------------------------------------------------------------------
\* VisualizationServer._convert_to_viz_format
\* ------------------------------------------------------------------------
\* The vertices that become visible nodes: not the anchors, and known to
\* attack_nodes; in the order of graph.nodes().
VizNodeIds(d, g) ==
    SelectSeq(g.nodes, LAMBDA v : v \notin {"START", "END"} /\ v \in Keys(d))

\* graph.edges(): vertex by vertex, each adjacency table in its order
RECURSIVE EdgeList(_, _)
EdgeList(g, i) ==
    IF i > Len(g.nodes) THEN << >>
    ELSE [j \in DOMAIN g.adj[g.nodes[i]] |->
             [source |-> g.nodes[i], target |-> g.adj[g.nodes[i]][j].to,
              value |-> g.adj[g.nodes[i]][j].weight]]
         \o EdgeList(g, i + 1)

convert_to_viz_format(d, g, ps) ==
    LET ids == VizNodeIds(d, g) IN
    [nodes |-> [i \in DOMAIN ids |->
                   LET n == DictGet(d, ids[i]) IN
                   [id |-> ids[i], name |-> n.description, severity |-> n.severity,
                    exploitability |-> n.exploitability, technique |-> n.technique,
                    risk_score |-> get_risk_score(n)]],
     links |-> SelectSeq(EdgeList(g, 1),
                   LAMBDA l : l.source \in Range(ids) /\ l.target \in Range(ids)),
     paths |-> [n \in DOMAIN ps |->
                   [id |-> n, risk |-> ps[n].total_risk,
                    likelihood |-> ps[n].likelihood, impact |-> ps[n].impact_score,
                    nodes |-> [i \in DOMAIN ps[n].nodes |-> ps[n].nodes[i].id]]]]

NoViz == [nodes |-> << >>, links |-> << >>, paths |-> << >>]

\* ------------------------------------------------------------------------
\* The state: the scan file and the mapper of every engine instance
\* ------------------------------------------------------------------------
VARIABLES
    scan_file,        \* data['vulnerabilities'] of the scan file
    pc,               \* where the run of each engine is: new, loaded, built,
                      \*   found, or failed (left by an exception)
    vulnerabilities,  \* self.vulnerabilities
    attack_nodes,     \* self.attack_nodes
    graph,            \* self.graph
    max_paths,        \* argument of the last find_attack_paths call
    all_paths,        \* local all_paths of the last find_attack_paths call
    paths,            \* list returned by the last find_attack_paths call
    finds,            \* number of find_attack_paths calls made
    err,              \* the exception that ended the run, or "none"
    loads,            \* number of load_scan_results calls made
    recommendations,  \* recommendations of the last generate_report call
    viz,              \* value of the last _convert_to_viz_format call
    requested         \* content of the file that an /analyze request names

vars == << scan_file, pc, vulnerabilities, attack_nodes, graph, max_paths,
           all_paths, paths, finds, err, loads, recommendations, viz,
           requested >>

\* what load, build and find leave alone
outputs == << recommendations, viz, requested >>

\* The records the scan file is made of.
SshWeakAuth == Vuln("ssh_weak_auth", Absent)
WebSqli == Vuln("web_sqli", Absent)
PrivilegeEscalation == Vuln("privilege_escalation", Absent)
DataExfiltration == Vuln("data_exfiltration", Absent)
CredentialReuse == Vuln("credential_reuse", Absent)
MisconfiguredS3 == Vuln("misconfigured_s3", Absent)
UpperCaseSqli == Vuln("WEB_SQLI", Absent)
UnknownType == Vuln("dns_leak", Absent)
MissingType == Vuln(Absent, Absent)
NumericType == Vuln(NonStr, Absent)
CustomIdSsh == Vuln("ssh_weak_auth", "vuln-1")
OpenPortNamedEnd == Vuln("open_port", "END")
XssNamedObjective == Vuln("web_xss", "privilege_escalation_2")
PrivEscNamedSsh == Vuln("privilege_escalation", "ssh_weak_auth")
OpenPortNamedPrivEsc == Vuln("open_port", "privilege_escalation")
XssNamedStart == Vuln("web_xss", "START")

ScanRecords ==
    { SshWeakAuth, WebSqli, PrivilegeEscalation, DataExfiltration,
      CredentialReuse, MisconfiguredS3, UpperCaseSqli, UnknownType,
      MissingType, NumericType, NotADict, CustomIdSsh, OpenPortNamedEnd,
      XssNamedObjective, PrivEscNamedSsh, OpenPortNamedPrivEsc,
      XssNamedStart }

TwoRunRecords ==
    { SshWeakAuth, WebSqli, PrivilegeEscalation, DataExfiltration, NumericType }

SeqsUpTo(S, n) == UNION { [1..m -> S] : m \in 0..n }

\* AttackPathMapper.__init__ for every engine
InitMappers ==
    /\ pc = [e \in Engines |-> "new"]
    /\ vulnerabilities = [e \in Engines |-> << >>]
    /\ attack_nodes = [e \in Engines |-> << >>]
    /\ graph = [e \in Engines |-> EmptyGraph]
    /\ max_paths = [e \in Engines |-> 0]
    /\ all_paths = [e \in Engines |-> << >>]
    /\ paths = [e \in Engines |-> << >>]
    /\ finds = [e \in Engines |-> 0]
    /\ err = [e \in Engines |-> "none"]
    /\ loads = [e \in Engines |-> 0]
    /\ recommendations = [e \in Engines |-> << >>]
    /\ viz = [e \in Engines |-> NoViz]

NoRequests == requested = [e \in Engines |-> << >>]

Init == scan_file \in SeqsUpTo(ScanRecords, MaxVulns) /\ InitMappers /\ NoRequests

InitTwoRuns ==
    scan_file \in SeqsUpTo(TwoRunRecords, MaxVulns) /\ InitMappers /\ NoRequests

\* load_scan_results: self.vulnerabilities = data.get('vulnerabilities', [])
LoadScanResults(e) ==
    /\ pc[e] = "new"
    /\ vulnerabilities' = [vulnerabilities EXCEPT ![e] = scan_file]
    /\ pc' = [pc EXCEPT ![e] = "loaded"]
    /\ loads' = [loads EXCEPT ![e] = @ + 1]
    /\ UNCHANGED << scan_file, attack_nodes, graph, max_paths, all_paths,
                    paths, finds, err, outputs >>

\* build_attack_graph; the AttributeError of a record leaves it
BuildAttackGraph(e) ==
    /\ pc[e] = "loaded"
    /\ LET r == build_attack_graph(vulnerabilities[e], attack_nodes[e], graph[e]) IN
       /\ attack_nodes' = [attack_nodes EXCEPT ![e] = r.attack_nodes]
       /\ graph' = [graph EXCEPT ![e] = r.graph]
       /\ pc' = [pc EXCEPT ![e] = IF r.raised THEN "failed" ELSE "built"]
       /\ err' = [err EXCEPT ![e] = IF r.raised THEN "AttributeError" ELSE "none"]
    /\ UNCHANGED << scan_file, vulnerabilities, max_paths, all_paths, paths, finds,
                    loads, outputs >>

\* find_attack_paths(max_paths=k).  all_simple_paths raises NodeNotFound,
\* which `except nx.NetworkXNoPath` does not catch, when START is no vertex.
FindAttackPaths(e, k) ==
    /\ pc[e] \in {"built", "found"}
    /\ finds[e] < MaxFinds
    /\ finds' = [finds EXCEPT ![e] = @ + 1]
    /\ max_paths' = [max_paths EXCEPT ![e] = k]
    /\ LET g == ConnectEndFrom(attack_nodes[e], 1, graph[e]) IN
       /\ graph' = [graph EXCEPT ![e] = g]
       /\ IF HasNode(g, "START")
          THEN LET all == all_simple_paths(g, "START", "END") IN
               /\ all_paths' = [all_paths EXCEPT ![e] = all]
               /\ paths' = [paths EXCEPT ![e] = RankedPaths(attack_nodes[e], all, k)]
               /\ pc' = [pc EXCEPT ![e] = "found"]
               /\ err' = err
          ELSE /\ pc' = [pc EXCEPT ![e] = "failed"]
               /\ err' = [err EXCEPT ![e] = "NodeNotFound"]
               /\ UNCHANGED << all_paths, paths >>
    /\ UNCHANGED << scan_file, vulnerabilities, attack_nodes, loads, outputs >>

Step(e) ==
    \/ LoadScanResults(e)
    \/ BuildAttackGraph(e)
    \/ \E k \in 0..MaxK : FindAttackPaths(e, k)

\* One run of main(): a single engine.
Next == Step(1)

Spec == Init /\ [][Next]_vars

\* Two runs of the engine on the same scan file.
NextTwoRuns == \E e \in Engines : Step(e)

SpecTwoRuns == InitTwoRuns /\ [][NextTwoRuns]_vars

\* ------------------------------------------------------------------------
\* Reporting: main() on the sample scan, followed by the report and by the
\* conversion that the web view makes of the same mapper
\* ------------------------------------------------------------------------
\* max_paths of main()
MainMaxPaths == 5

\* generate_report(paths), called by main() when paths is not empty
GenerateReport(e) ==
    /\ pc[e] = "found"
    /\ paths[e] # << >>
    /\ recommendations' = [recommendations EXCEPT ![e] = Recommendations(paths[e])]
    /\ UNCHANGED << scan_file, pc, vulnerabilities, attack_nodes, graph, max_paths,
                    all_paths, paths, finds, err, loads, viz, requested >>

\* _convert_to_viz_format(mapper, paths)
ConvertToVizFormat(e) ==
    /\ pc[e] = "found"
    /\ viz' = [viz EXCEPT ![e] =
                  convert_to_viz_format(attack_nodes[e], graph[e], paths[e])]
    /\ UNCHANGED << scan_file, pc, vulnerabilities, attack_nodes, graph, max_paths,
                    all_paths, paths, finds, err, loads, recommendations,
                    requested >>

\* The records of create_sample_scan and one more objective.
ReportRecords ==
    { SshWeakAuth, WebSqli, MisconfiguredS3, PrivilegeEscalation,
      CredentialReuse, DataExfiltration, XssNamedObjective }

\* The orders in which a scan file can list the records of S.
RECURSIVE Perms(_)
Perms(S) ==
    IF S = {} THEN { << >> }
    ELSE UNION { { << x >> \o p : p \in Perms(S \ {x}) } : x \in S }

InitReport == scan_file \in Perms(ReportRecords) /\ InitMappers /\ NoRequests

NextReport ==
    \/ LoadScanResults(1)
    \/ BuildAttackGraph(1)
    \/ FindAttackPaths(1, MainMaxPaths)
    \/ GenerateReport(1)
    \/ ConvertToVizFormat(1)

SpecReport == InitReport /\ [][NextReport]_vars

\* ------------------------------------------------------------------------
\* One mapper used for several scan files: load_scan_results takes the path
\* of a file, and nothing keeps a caller from loading another one.
\* ------------------------------------------------------------------------
MaxLoads == 3
MaxFileLen == 1

ReloadRecords == { SshWeakAuth, PrivilegeEscalation, XssNamedObjective }

ScanFiles == SeqsUpTo(ReloadRecords, MaxFileLen)

\* load_scan_results(file) on a mapper that has loaded before: the method
\* assigns self.vulnerabilities and touches nothing else.
ReloadScanResults(e, vs) ==
    /\ pc[e] \in {"loaded", "built", "found"}
    /\ loads[e] < MaxLoads
    /\ vulnerabilities' = [vulnerabilities EXCEPT ![e] = vs]
    /\ pc' = [pc EXCEPT ![e] = "loaded"]
    /\ loads' = [loads EXCEPT ![e] = @ + 1]
    /\ UNCHANGED << scan_file, attack_nodes, graph, max_paths, all_paths,
                    paths, finds, err, outputs >>

InitReload == scan_file \in ScanFiles /\ InitMappers /\ NoRequests

NextReload ==
    \/ LoadScanResults(1)
    \/ BuildAttackGraph(1)
    \/ FindAttackPaths(1, MainMaxPaths)
    \/ \E vs \in ScanFiles : ReloadScanResults(1, vs)

SpecReload == InitReload /\ [][NextReload]_vars

\* ------------------------------------------------------------------------
\* VisualizationServer.do_GET on /analyze.  A request r names a file; its
\* handler constructs a mapper and takes it through load, build, find and
\* the conversion.  The handlers of two requests are interleaved step by
\* step, which covers the one-at-a-time service of HTTPServer as well as a
\* threaded one.
\* ------------------------------------------------------------------------
\* max_paths of the handler
AnalyzeMaxPaths == 5

RequestRecords == { SshWeakAuth, PrivilegeEscalation, NumericType }

RequestFiles == SeqsUpTo(RequestRecords, MaxFileLen + 1)

\* Mutation: one process-wide mapper serves every request.
RequestMapper_singleton(r) == 1

\* mapper = AttackPathMapper(): the mapper that the handler of r works on
RequestMapper(r) == r

\* lines 25-33: the request is parsed and the mapper constructed
ReceiveRequest(r, vs) ==
    LET m == RequestMapper(r) IN
    /\ pc[r] \in {"idle", "responded", "failed"}
    /\ requested' = [requested EXCEPT ![r] = vs]
    /\ vulnerabilities' = [vulnerabilities EXCEPT ![m] = << >>]
    /\ attack_nodes' = [attack_nodes EXCEPT ![m] = << >>]
    /\ graph' = [graph EXCEPT ![m] = EmptyGraph]
    /\ pc' = [pc EXCEPT ![r] = "new"]
    /\ err' = [err EXCEPT ![r] = "none"]
    /\ paths' = [paths EXCEPT ![r] = << >>]
    /\ all_paths' = [all_paths EXCEPT ![r] = << >>]
    /\ viz' = [viz EXCEPT ![r] = NoViz]
    /\ finds' = [finds EXCEPT ![r] = 0]
    /\ loads' = [loads EXCEPT ![m] = 0]
    /\ UNCHANGED << scan_file, max_paths, recommendations >>

\* line 34
HandleLoad(r) ==
    LET m == RequestMapper(r) IN
    /\ pc[r] = "new"
    /\ vulnerabilities' = [vulnerabilities EXCEPT ![m] = requested[r]]
    /\ pc' = [pc EXCEPT ![r] = "loaded"]
    /\ loads' = [loads EXCEPT ![m] = @ + 1]
    /\ UNCHANGED << scan_file, attack_nodes, graph, max_paths, all_paths, paths,
                    finds, err, outputs >>

\* line 35; an exception is answered with status 500 (lines 46-50)
HandleBuild(r) ==
    LET m == RequestMapper(r)
        b == build_attack_graph(vulnerabilities[m], attack_nodes[m], graph[m])
    IN
    /\ pc[r] = "loaded"
    /\ attack_nodes' = [attack_nodes EXCEPT ![m] = b.attack_nodes]
    /\ graph' = [graph EXCEPT ![m] = b.graph]
    /\ pc' = [pc EXCEPT ![r] = IF b.raised THEN "failed" ELSE "built"]
    /\ err' = [err EXCEPT ![r] = IF b.raised THEN "AttributeError" ELSE "none"]
    /\ UNCHANGED << scan_file, vulnerabilities, max_paths, all_paths, paths, finds,
                    loads, outputs >>

\* line 36
HandleFind(r) ==
    LET m == RequestMapper(r)
        g == ConnectEndFrom(attack_nodes[m], 1, graph[m])
    IN
    /\ pc[r] = "built"
    /\ finds' = [finds EXCEPT ![r] = @ + 1]
    /\ graph' = [graph EXCEPT ![m] = g]
    /\ IF HasNode(g, "START")
       THEN LET all == all_simple_paths(g, "START", "END") IN
            /\ all_paths' = [all_paths EXCEPT ![r] = all]
            /\ paths' = [paths EXCEPT ![r] =
                            RankedPaths(attack_nodes[m], all, AnalyzeMaxPaths)]
            /\ pc' = [pc EXCEPT ![r] = "found"]
            /\ err' = err
       ELSE /\ pc' = [pc EXCEPT ![r] = "failed"]
            /\ err' = [err EXCEPT ![r] = "NodeNotFound"]
            /\ UNCHANGED << all_paths, paths >>
    /\ UNCHANGED << scan_file, vulnerabilities, attack_nodes, max_paths, loads,
                    outputs >>

\* lines 39-44: the conversion and the response with status 200
HandleConvert(r) ==
    LET m == RequestMapper(r) IN
    /\ pc[r] = "found"
    /\ viz' = [viz EXCEPT ![r] =
                  convert_to_viz_format(attack_nodes[m], graph[m], paths[r])]
    /\ pc' = [pc EXCEPT ![r] = "responded"]
    /\ UNCHANGED << scan_file, vulnerabilities, attack_nodes, graph, max_paths,
                    all_paths, paths, finds, err, loads, recommendations,
                    requested >>

InitRequests ==
    /\ scan_file = << >>
    /\ pc = [r \in Engines |-> "idle"]
    /\ vulnerabilities = [r \in Engines |-> << >>]
    /\ attack_nodes = [r \in Engines |-> << >>]
    /\ graph = [r \in Engines |-> EmptyGraph]
    /\ max_paths = [r \in Engines |-> AnalyzeMaxPaths]
    /\ all_paths = [r \in Engines |-> << >>]
    /\ paths = [r \in Engines |-> << >>]
    /\ finds = [r \in Engines |-> 0]
    /\ err = [r \in Engines |-> "none"]
    /\ loads = [r \in Engines |-> 0]
    /\ recommendations = [r \in Engines |-> << >>]
    /\ viz = [r \in Engines |-> NoViz]
    /\ NoRequests

NextRequests ==
    \E r \in Engines :
        \/ \E vs \in RequestFiles : ReceiveRequest(r, vs)
        \/ HandleLoad(r)
        \/ HandleBuild(r)
        \/ HandleFind(r)
        \/ HandleConvert(r)

SpecRequests == InitRequests /\ [][NextRequests]_vars

\* ========================================================================
\* Properties
\* ========================================================================
\* find_attack_paths has returned in engine e
Returned(e) == pc[e] = "found"

\* build_attack_graph has returned normally in engine e
Built(e) == pc[e] \in {"built", "found"} \/ (pc[e] = "failed" /\ finds[e] > 0)

StepIds(p) == [i \in DOMAIN p.nodes |-> p.nodes[i].id]

RiskDescending(ps) ==
    \A i, j \in DOMAIN ps : i < j => ps[i].total_risk >= ps[j].total_risk

\* The vertices that a set of vertices reaches along the edges.
RECURSIVE ReachFrom(_, _)
ReachFrom(g, S) ==
    LET T == S \cup {ed[2] : ed \in {x \in Edges(g) : x[1] \in S}} IN
    IF T = S THEN S ELSE ReachFrom(g, T)

StartReachesEnd(g) == HasNode(g, "START") /\ "END" \in ReachFrom(g, {"START"})

\* C1: the list returned by find_attack_paths(max_paths=k) is the first k
\* of ALL candidate START-to-END paths sorted by total_risk descending: the
\* k paths of globally highest total_risk, whatever the enumeration order.
C1_TopKOfAllCandidates ==
    \A e \in Engines :
        Returned(e) =>
            paths[e] = Take(SortByRisk(EvaluateAll(attack_nodes[e], all_paths[e])),
                            max_paths[e])

\* C2: on a graph without START-to-END connectivity, build_attack_graph
\* followed by find_attack_paths returns the empty list and ends in no error.
C2_NoConnectivityReturnsEmpty ==
    \A e \in Engines :
        (Built(e) /\ finds[e] > 0 /\ ~StartReachesEnd(graph[e])) =>
            (err[e] = "none" /\ Returned(e) /\ paths[e] = << >>)

\* A prerequisite of the node is the id of a node of this run.
HasSatisfiedPrerequisite(d, node) ==
    \E j \in DOMAIN node.prerequisites : node.prerequisites[j] \in Keys(d)

\* C3 as stated: after build_attack_graph the edge START -> N exists exactly
\* when N has no satisfied prerequisite (none declared, or none present).
C3_EntryIffNoSatisfiedPrerequisite ==
    \A e \in Engines :
        Built(e) =>
            \A i \in DOMAIN attack_nodes[e] :
                HasEdge(graph[e], "START", attack_nodes[e][i].id)
                    <=> ~HasSatisfiedPrerequisite(attack_nodes[e], attack_nodes[e][i])

\* C3 amended: after build_attack_graph on a new mapper the edge START -> N
\* exists exactly when N declares no prerequisites; a node whose declared
\* prerequisites are all absent has no edge from START.
C3_EntryIffNoDeclaredPrerequisite ==
    \A e \in Engines :
        Built(e) =>
            \A i \in DOMAIN attack_nodes[e] :
                HasEdge(graph[e], "START", attack_nodes[e][i].id)
                    <=> attack_nodes[e][i].prerequisites = << >>

C3_Witness ==
    /\ pc[1] = "built"
    /\ \E i, j \in DOMAIN attack_nodes[1] :
        /\ attack_nodes[1][i].prerequisites = << >>
        /\ HasEdge(graph[1], "START", attack_nodes[1][i].id)
        /\ attack_nodes[1][j].prerequisites # << >>
        /\ ~HasSatisfiedPrerequisite(attack_nodes[1], attack_nodes[1][j])
        /\ ~HasEdge(graph[1], "START", attack_nodes[1][j].id)

\* C4: for every k >= 0 the list returned by find_attack_paths(max_paths=k)
\* has at most k elements and is in non-increasing order of total_risk.
C4_AtMostKInDescendingRisk ==
    \A e \in Engines :
        Returned(e) => (Len(paths[e]) <= max_paths[e] /\ RiskDescending(paths[e]))

C4_Witness ==
    /\ Returned(1)
    /\ Len(all_paths[1]) > max_paths[1]
    /\ Len(paths[1]) = max_paths[1]
    /\ Len(paths[1]) >= 2
    /\ paths[1][1].total_risk > paths[1][2].total_risk

RECURSIVE RiskOfFirst(_, _)
RiskOfFirst(nodes, n) ==
    IF n = 0 THEN 0
    ELSE RiskOfFirst(nodes, n - 1) + nodes[n].severity * 70 + nodes[n].exploitability * 30

\* p is the evaluation of the raw graph path raw
EvaluationOf(d, p, raw) ==
    /\ Len(p.nodes) = Len(raw) - 2
    /\ Len(p.nodes) >= 1
    /\ \A i \in DOMAIN p.nodes :
        /\ p.nodes[i].id = raw[i + 1]
        /\ p.nodes[i] \in Range(d)
    /\ p.total_risk = RiskOfFirst(p.nodes, Len(p.nodes))
    /\ \E i \in DOMAIN p.nodes : p.likelihood = p.nodes[i].exploitability
    /\ \A i \in DOMAIN p.nodes : p.likelihood <= p.nodes[i].exploitability
    /\ \E i \in DOMAIN p.nodes : p.impact_score = p.nodes[i].severity
    /\ \A i \in DOMAIN p.nodes : p.impact_score >= p.nodes[i].severity

\* C5: every AttackPath returned is a raw START..END graph path with START
\* and END stripped; its total_risk is the sum of the risk scores of its
\* steps, its likelihood their minimum exploitability and its impact_score
\* their maximum severity.
C5_PathMetrics ==
    \A e \in Engines :
        Returned(e) =>
            \A i \in DOMAIN paths[e] :
                \E r \in DOMAIN all_paths[e] :
                    /\ all_paths[e][r][1] = "START"
                    /\ all_paths[e][r][Len(all_paths[e][r])] = "END"
                    /\ EvaluationOf(attack_nodes[e], paths[e][i], all_paths[e][r])

C5_Witness ==
    /\ Returned(1)
    /\ \E i \in DOMAIN paths[1] :
        /\ Len(paths[1][i].nodes) = 3
        /\ paths[1][i].likelihood < paths[1][i].nodes[1].exploitability
        /\ paths[1][i].impact_score > paths[1][i].nodes[1].severity
        /\ paths[1][i].total_risk > get_risk_score(paths[1][i].nodes[3])

\* The rule table of the specification, risk scores in hundredths.
RuleSeverity ==
    ("ssh_weak_auth" :> 7) @@ ("open_port" :> 5) @@ ("web_sqli" :> 9) @@
    ("web_xss" :> 6) @@ ("misconfigured_s3" :> 8) @@ ("privilege_escalation" :> 9) @@
    ("credential_reuse" :> 7) @@ ("data_exfiltration" :> 10)

RuleExploitability ==
    ("ssh_weak_auth" :> 7) @@ ("open_port" :> 5) @@ ("web_sqli" :> 8) @@
    ("web_xss" :> 6) @@ ("misconfigured_s3" :> 9) @@ ("privilege_escalation" :> 6) @@
    ("credential_reuse" :> 7) @@ ("data_exfiltration" :> 8)

RuleRisk ==
    ("ssh_weak_auth" :> 700) @@ ("open_port" :> 500) @@ ("web_sqli" :> 870) @@
    ("web_xss" :> 600) @@ ("misconfigured_s3" :> 830) @@
    ("privilege_escalation" :> 810) @@ ("credential_reuse" :> 700) @@
    ("data_exfiltration" :> 940)

\* The type strings whose lower case is a key of the rule table.
KnownTypeStrings == DOMAIN RuleRisk \cup {"WEB_SQLI", "Privilege_Escalation"}

\* The lower-cased type of a record of a known type (the default
\* description of a node, which the model writes as the vuln_type).
TypeOfNode(node) == node.description

\* C6: a node translated from a type of the rule table has the severity and
\* exploitability of the table entry and the risk score
\* severity*0.7 + exploitability*10*0.3 (ssh_weak_auth 7.0, web_sqli 8.7,
\* privilege_escalation 8.1), which lies between 0 and 10.
C6_RuleTableRiskScore ==
    \A e \in Engines :
        \A i \in DOMAIN attack_nodes[e] :
            LET node == attack_nodes[e][i] IN
            /\ TypeOfNode(node) \in DOMAIN RuleRisk
            /\ node.severity = RuleSeverity[TypeOfNode(node)]
            /\ node.exploitability = RuleExploitability[TypeOfNode(node)]
            /\ get_risk_score(node) = RuleRisk[TypeOfNode(node)]
            /\ get_risk_score(node) >= 0
            /\ get_risk_score(node) <= 1000

C6_Witness ==
    /\ pc[1] = "built"
    /\ {"ssh_weak_auth", "web_sqli", "privilege_escalation"} \subseteq Keys(attack_nodes[1])
    /\ get_risk_score(DictGet(attack_nodes[1], "ssh_weak_auth")) = 700
    /\ get_risk_score(DictGet(attack_nodes[1], "web_sqli")) = 870
    /\ get_risk_score(DictGet(attack_nodes[1], "privilege_escalation")) = 810

WellFormed(v) == v.shape = "dict" /\ v.type \notin {Absent, NonStr}

\* a record with a type string that the rule table does not know
UnknownRecord(v) == WellFormed(v) /\ v.type \notin KnownTypeStrings

RECURSIVE Without(_, _)
Without(vulns, n) ==
    IF n = 0 THEN << >>
    ELSE IF UnknownRecord(vulns[n]) THEN Without(vulns, n - 1)
         ELSE Append(Without(vulns, n - 1), vulns[n])

\* C7: a record whose lower-cased type is not in the rule table is skipped
\* without an error: it leaves no node, vertex or edge, and the other
\* records are translated as if it were absent; the lookup ignores letter
\* case, so 'WEB_SQLI' yields the node of web_sqli.
C7_UnknownTypeSkipped ==
    \A e \in Engines :
        LET vulns == vulnerabilities[e]
            kept == build_attack_graph(Without(vulns, Len(vulns)), << >>, EmptyGraph)
        IN
        /\ (pc[e] = "failed" /\ finds[e] = 0) =>
               \E i \in DOMAIN vulns : vulns[i].shape # "dict" \/ vulns[i].type = NonStr
        /\ pc[e] = "built" =>
               /\ attack_nodes[e] = kept.attack_nodes
               /\ graph[e] = kept.graph
               /\ \A i \in DOMAIN vulns :
                      (vulns[i].type = "WEB_SQLI" /\ vulns[i].id = Absent) =>
                          /\ "web_sqli" \in Keys(attack_nodes[e])
                          /\ HasNode(graph[e], "web_sqli")
               /\ \A i \in DOMAIN attack_nodes[e] :
                      \E j \in DOMAIN vulns :
                          /\ vulns[j].type \in KnownTypeStrings
                          /\ \/ vulns[j].id = attack_nodes[e][i].id
                             \/ /\ vulns[j].id = Absent
                                /\ attack_nodes[e][i].id \in DOMAIN RuleRisk

C7_Witness ==
    /\ pc[1] = "built"
    /\ \E i \in DOMAIN vulnerabilities[1] : vulnerabilities[1][i] = UnknownType
    /\ vulnerabilities[1][Len(vulnerabilities[1])] = UpperCaseSqli
    /\ Keys(attack_nodes[1]) = {"web_sqli", "privilege_escalation"}
    /\ HasEdge(graph[1], "web_sqli", "privilege_escalation")

\* the mapper that the well-formed records alone produce
WellFormedOnly(vulns) == SelectSeq(vulns, WellFormed)

\* C8: a malformed record (no type, a type that is no string, a record that
\* is no mapping) fails on its own and does not abort the run: the
\* well-formed records of the input are translated and the graph is built.
C8_MalformedRecordFailsAlone ==
    \A e \in Engines :
        pc[e] \notin {"new", "loaded"} =>
            LET r == build_attack_graph(WellFormedOnly(vulnerabilities[e]), << >>, EmptyGraph)
            IN /\ err[e] # "AttributeError"
               /\ Keys(attack_nodes[e]) = Keys(r.attack_nodes)
               /\ Edges(r.graph) \subseteq Edges(graph[e])

IsDiamond(vulns) ==
    /\ Len(vulns) = 3
    /\ Range(vulns) = {SshWeakAuth, WebSqli, PrivilegeEscalation}

\* C9: for the diamond ssh_weak_auth, web_sqli, privilege_escalation (in any
\* order of the records, max_paths >= 2) exactly two paths are returned, each
\* of two steps: [web_sqli, privilege_escalation] (16.8) first and
\* [ssh_weak_auth, privilege_escalation] (15.1) second.
C9_DiamondTwoPaths ==
    \A e \in Engines :
        (Returned(e) /\ IsDiamond(vulnerabilities[e]) /\ max_paths[e] >= 2) =>
            /\ Len(paths[e]) = 2
            /\ StepIds(paths[e][1]) = << "web_sqli", "privilege_escalation" >>
            /\ paths[e][1].total_risk = 1680
            /\ StepIds(paths[e][2]) = << "ssh_weak_auth", "privilege_escalation" >>
            /\ paths[e][2].total_risk = 1510

C9_Witness ==
    /\ Returned(1)
    /\ vulnerabilities[1] = << SshWeakAuth, WebSqli, PrivilegeEscalation >>
    /\ max_paths[1] = 2
    /\ Len(paths[1]) = 2

\* Both engines ran load, build and one find with the same max_paths.
SameRun ==
    /\ finds[1] = 1 /\ finds[2] = 1
    /\ max_paths[1] = max_paths[2]

\* Engine e repeats find_attack_paths with the max_paths of its last call.
RepeatedFind(e) ==
    /\ pc[e] = "found" /\ pc'[e] = "found"
    /\ finds'[e] = finds[e] + 1
    /\ max_paths'[e] = max_paths[e]

ExploredCap == 2

\* C11: find_attack_paths stops enumerating simple paths at a hard internal
\* cap, so the number of paths explored never exceeds the cap.
C11_EnumerationCapped ==
    \A e \in Engines : Len(all_paths[e]) <= ExploredCap

\* find_attack_paths has run on the graph that build_attack_graph produced
AfterFind(e) == Built(e) /\ finds[e] > 0

ObjectiveTypes == {"data_exfiltration", "privilege_escalation"}

\* C16: after build_attack_graph, for translated nodes P and N the edge
\* P -> N exists exactly when the id of P is one of the prerequisite types
\* that N declares.
C16_PrerequisiteEdgeIffIdMatches ==
    \A e \in Engines :
        pc[e] = "built" =>
            \A i, j \in DOMAIN attack_nodes[e] :
                HasEdge(graph[e], attack_nodes[e][i].id, attack_nodes[e][j].id)
                    <=> attack_nodes[e][i].id \in Range(attack_nodes[e][j].prerequisites)

\* C17: the edge N -> END exists for a translated node N exactly when the
\* id of N contains an objective type; no other node has an edge to END.
C17_EndEdgeIffObjectiveId ==
    \A e \in Engines :
        AfterFind(e) =>
            \A i \in DOMAIN attack_nodes[e] :
                HasEdge(graph[e], attack_nodes[e][i].id, "END")
                    <=> \E t \in ObjectiveTypes : StrContains(t, attack_nodes[e][i].id)

\* C18: whatever ids the records supply, the graph never has the edge
\* START -> END.
C18_NoStartEndEdge ==
    \A e \in Engines : ~HasEdge(graph[e], "START", "END")

\* C19: every AttackPath returned has at least one step and no id twice;
\* its first step has an edge from START, its last step an edge to END, and
\* of two consecutive steps the first is a declared prerequisite of the
\* second.
C19_WellFormedChain ==
    \A e \in Engines :
        Returned(e) =>
            \A n \in DOMAIN paths[e] :
                LET steps == paths[e][n].nodes IN
                /\ Len(steps) >= 1
                /\ \A i, j \in DOMAIN steps : steps[i].id = steps[j].id => i = j
                /\ HasEdge(graph[e], "START", steps[1].id)
                /\ HasEdge(graph[e], steps[Len(steps)].id, "END")
                /\ \A i \in 1..(Len(steps) - 1) :
                       steps[i].id \in Range(steps[i + 1].prerequisites)

C19_Witness ==
    /\ Returned(1)
    /\ \E n \in DOMAIN paths[1] :
        /\ Len(paths[1][n].nodes) = 3
        /\ StepIds(paths[1][n]) = << "ssh_weak_auth", "privilege_escalation", "data_exfiltration" >>

\* The ids of the nodes that the records translate to, one per record that
\* translates.
TranslatedIds(vulns) ==
    [i \in {j \in DOMAIN vulns : vulnerability_to_node(vulns[j]) # << >>} |->
        vulnerability_to_node(vulns[i])[1].id]

DistinctIds(vulns) ==
    \A i, j \in DOMAIN TranslatedIds(vulns) :
        TranslatedIds(vulns)[i] = TranslatedIds(vulns)[j] => i = j

Orderings(vulns) ==
    { [i \in DOMAIN vulns |-> vulns[f[i]]] :
        f \in {h \in [DOMAIN vulns -> DOMAIN vulns] :
                  \A a, b \in DOMAIN vulns : h[a] = h[b] => a = b} }

\* C20: when the translated ids are pairwise distinct, build_attack_graph
\* yields the same vertex set and the same edge set for every ordering of
\* the records; when records share an id there is one node for the id, that
\* of the last such record.
C20_GraphIndependentOfRecordOrder ==
    \A e \in Engines :
        pc[e] = "built" =>
            LET vulns == vulnerabilities[e] IN
            /\ \A i, j \in DOMAIN attack_nodes[e] :
                   attack_nodes[e][i].id = attack_nodes[e][j].id => i = j
            /\ \A i \in DOMAIN TranslatedIds(vulns) :
                   (\A j \in DOMAIN TranslatedIds(vulns) :
                        TranslatedIds(vulns)[j] = TranslatedIds(vulns)[i] => j <= i)
                   => vulnerability_to_node(vulns[i])[1] \in Range(attack_nodes[e])
            /\ DistinctIds(vulns) =>
                   \A other \in Orderings(vulns) :
                       LET r == build_attack_graph(other, << >>, EmptyGraph) IN
                       /\ Range(r.graph.nodes) = Range(graph[e].nodes)
                       /\ Edges(r.graph) = Edges(graph[e])

C20_Witness ==
    /\ pc[1] = "built"
    /\ vulnerabilities[1] = << PrivilegeEscalation, SshWeakAuth, WebSqli >>
    /\ Edges(graph[1]) =
           { <<"ssh_weak_auth", "privilege_escalation">>,
             <<"web_sqli", "privilege_escalation">>,
             <<"START", "ssh_weak_auth">>, <<"START", "web_sqli">> }

\* ------------------------------------------------------------------------
\* C12: the recommendations
\* ------------------------------------------------------------------------
Reported(e) == pc[e] = "found" /\ recommendations[e] # << >>

\* the nodes that appear in the returned paths
PathNodes(e) == UNION { Range(paths[e][n].nodes) : n \in DOMAIN paths[e] }

RecommendedNodes(e) == { recommendations[e][i].node : i \in DOMAIN recommendations[e] }

\* C12: the recommendations are drawn only from nodes of the returned
\* paths, name every node id at most once, are ordered by non-increasing
\* node risk score, and are the (at most) five highest-risk such nodes.
C12_RecommendationsTopFiveDistinct ==
    \A e \in Engines : Reported(e) =>
        LET recs == recommendations[e] IN
        /\ RecommendedNodes(e) \subseteq PathNodes(e)
        /\ \A i, j \in DOMAIN recs : i # j => recs[i].node.id # recs[j].node.id
        /\ \A i, j \in DOMAIN recs :
              i < j => get_risk_score(recs[i].node) >= get_risk_score(recs[j].node)
        /\ Len(recs) = MinOf({5, Cardinality({n.id : n \in PathNodes(e)})})
        /\ \A n \in PathNodes(e) : \A i \in DOMAIN recs :
              n.id \notin {m.id : m \in RecommendedNodes(e)}
                  => get_risk_score(n) <= get_risk_score(recs[i].node)

\* Six nodes lie on the returned paths, one of them on two paths, and the
\* report has kept five.
C12_Witness ==
    /\ Reported(1)
    /\ Cardinality(PathNodes(1)) > 5
    /\ Len(recommendations[1]) = 5
    /\ \E m, n \in DOMAIN paths[1] :
          m # n /\ Range(paths[1][m].nodes) \cap Range(paths[1][n].nodes) # {}

\* ------------------------------------------------------------------------
\* C13: the vertices of the graph
\* ------------------------------------------------------------------------
VertexSet(g) == Range(g.nodes)

\* C13: in every reachable state, after any sequence of load_scan_results,
\* build_attack_graph and find_attack_paths calls, the graph has no vertex
\* other than the ids of the nodes translated from the currently loaded
\* vulnerability set and the anchors START and END.  Stated for the states
\* in which build_attack_graph has run on the loaded set, so that a graph
\* which merely awaits its rebuild does not count against the claim.
C13_VerticesFromLoadedSet ==
    \A e \in Engines : pc[e] \in {"built", "found"} =>
        VertexSet(graph[e]) \subseteq
            Range(TranslatedIds(vulnerabilities[e])) \cup {"START", "END"}

\* ------------------------------------------------------------------------
\* C14: who changes the graph
\* ------------------------------------------------------------------------
SameGraph(g, h) == VertexSet(g) = VertexSet(h) /\ Edges(g) = Edges(h)

\* C14: only build_attack_graph changes the graph: a step of
\* find_attack_paths (with its _evaluate_path calls), of generate_report or
\* of the visualization conversion leaves the vertex set and the edge set
\* as the builder produced them.
C14_OnlyBuilderMutatesGraph ==
    [][\A e \in Engines :
          pc[e] \in {"built", "found"} => SameGraph(graph[e], graph'[e])]_vars

\* C14 as the code has it: generate_report and the conversion leave the
\* graph alone; the first find_attack_paths call after the build adds the
\* vertex END and the edges N -> END of the nodes N whose id contains an
\* objective type, and nothing else; a later call changes nothing.
C14_FinderOnlyAddsEndEdges ==
    [][\A e \in Engines : pc[e] \in {"built", "found"} =>
          /\ finds'[e] = finds[e] => graph'[e] = graph[e]
          /\ finds[e] > 0 => SameGraph(graph[e], graph'[e])
          /\ VertexSet(graph[e]) \subseteq VertexSet(graph'[e])
          /\ VertexSet(graph'[e]) \ VertexSet(graph[e]) \subseteq {"END"}
          /\ Edges(graph[e]) \subseteq Edges(graph'[e])
          /\ \A ed \in Edges(graph'[e]) \ Edges(graph[e]) :
                /\ ed[2] = "END"
                /\ ed[1] \in Keys(attack_nodes[e])
                /\ \E t \in ObjectiveTypes : StrContains(t, ed[1])]_vars

\* The finder has run twice, the report and the conversion have been made,
\* and the graph holds END edges that the builder did not produce.
C14_Witness ==
    /\ pc[1] = "found" /\ finds[1] = 2
    /\ recommendations[1] # << >>
    /\ viz[1].nodes # << >>
    /\ \E n \in Keys(attack_nodes[1]) : HasEdge(graph[1], n, "END")
    /\ ~ SameGraph(graph[1],
           build_attack_graph(vulnerabilities[1], << >>, EmptyGraph).graph)

\* ------------------------------------------------------------------------
\* C15: the requests of the web view
\* ------------------------------------------------------------------------
\* The analysis of one input on a fresh engine, nothing else going on.
AnalyzeAlone(vs) ==
    LET b == build_attack_graph(vs, << >>, EmptyGraph)
        g == ConnectEndFrom(b.attack_nodes, 1, b.graph)
        ps == RankedPaths(b.attack_nodes, all_simple_paths(g, "START", "END"), 5)
    IN  IF b.raised THEN [err |-> "AttributeError", paths |-> << >>, viz |-> NoViz]
        ELSE IF ~ HasNode(g, "START")
        THEN [err |-> "NodeNotFound", paths |-> << >>, viz |-> NoViz]
        ELSE [err |-> "none", paths |-> ps,
              viz |-> convert_to_viz_format(b.attack_nodes, g, ps)]

\* C15: whatever the sequence or interleaving of /analyze requests, the
\* result of a request (its paths, its response body, or its failure) is
\* the result of analysing the request's input alone on a fresh engine.
C15_RequestsIsolated ==
    \A r \in Engines :
        LET alone == AnalyzeAlone(requested[r]) IN
        /\ pc[r] \in {"found", "responded"} =>
              alone.err = "none" /\ paths[r] = alone.paths
        /\ pc[r] = "responded" => viz[r] = alone.viz
        /\ pc[r] = "failed" => err[r] = alone.err /\ err[r] # "none"

\* Two requests for different files have both been answered, each with
\* paths of its own.
C15_Witness ==
    /\ pc[1] = "responded" /\ pc[2] = "responded"
    /\ requested[1] # requested[2]
    /\ viz[1].paths # << >> /\ viz[2].paths # << >>
    /\ viz[1] # viz[2]

====
